---- MODULE Spec2Model ----
(***************************************************************************)
(* Model of plugins/task_generators/metadata_maintenance.py: the Airflow   *)
(* metadata clean-up DAG (print_configuration -> cleanup_<Model>* ->       *)
(* analyze_query), its query builder build_query and its per-dag_id        *)
(* delete loop.                                                            *)
(*                                                                         *)
(* Time is counted in whole days.  A table row is a record                 *)
(*   [dag_id, date, external_trigger]                                      *)
(* where date is the value of the model's age_check_column.                *)
(***************************************************************************)
EXTENDS Integers, Sequences, FiniteSets, TLC

\* ------------------------------------------------------------------ bounds
MaxDate == 2          \* how many days the row dates range over
MaxRows == 3          \* rows per table when one category is cleaned alone
DagMaxRows == 1       \* rows per table when the whole DAG runs
StartClock == 14      \* value of now() when the run is triggered

\* ------------------------------------------------------------- value space
NULL == "<NULL>"                       \* SQL NULL / Python None in a dag_id
Dags == {"X", "Y"}
\* Row dates start at the oldest max_date a run can ask for (3 days back).
OldestDate == StartClock - 3
Dates == OldestDate..(OldestDate + MaxDate - 1)
FaultKinds == {"ProgrammingError", "OperationalError"}

\* str(None): what line 321 makes of a NULL dag_id
Str(v) == IF v = NULL THEN "None" ELSE v

\* ------------------------------------------------------ DATABASE_OBJECTS
DATABASE_OBJECTS ==
  [ BaseJob |->
      [airflow_db_model |-> "BaseJob", keep_last |-> FALSE,
       keep_last_filters |-> FALSE, keep_last_group_by |-> FALSE,
       do_not_delete_by_dag_id |-> FALSE],
    DagRun |->
      [airflow_db_model |-> "DagRun", keep_last |-> TRUE,
       keep_last_filters |-> TRUE, keep_last_group_by |-> TRUE,
       do_not_delete_by_dag_id |-> FALSE],
    Log |->
      [airflow_db_model |-> "Log", keep_last |-> FALSE,
       keep_last_filters |-> FALSE, keep_last_group_by |-> FALSE,
       do_not_delete_by_dag_id |-> FALSE],
    SlaMiss |->
      [airflow_db_model |-> "SlaMiss", keep_last |-> FALSE,
       keep_last_filters |-> FALSE, keep_last_group_by |-> FALSE,
       do_not_delete_by_dag_id |-> FALSE],
    DagModel |->
      [airflow_db_model |-> "DagModel", keep_last |-> FALSE,
       keep_last_filters |-> FALSE, keep_last_group_by |-> FALSE,
       do_not_delete_by_dag_id |-> FALSE],
    TaskFail |->
      [airflow_db_model |-> "TaskFail", keep_last |-> FALSE,
       keep_last_filters |-> FALSE, keep_last_group_by |-> FALSE,
       do_not_delete_by_dag_id |-> FALSE],
    ImportError |->
      [airflow_db_model |-> "ImportError", keep_last |-> FALSE,
       keep_last_filters |-> FALSE, keep_last_group_by |-> FALSE,
       do_not_delete_by_dag_id |-> TRUE] ]

Models == DOMAIN DATABASE_OBJECTS

\* The rows a model's table can hold: DagRun.dag_id is NOT NULL and only
\* DagRun has external_trigger; ImportError has no dag_id column.
RowsOf(m) ==
  IF m = "DagRun"
    THEN [dag_id : Dags, date : Dates, external_trigger : BOOLEAN]
    ELSE IF m = "ImportError"
      THEN [dag_id : {NULL}, date : Dates, external_trigger : {FALSE}]
      ELSE [dag_id : Dags \cup {NULL}, date : Dates, external_trigger : {FALSE}]

\* ------------------------------------------------------------ build_query
Max(S) == CHOOSE x \in S : \A y \in S : y <= x

\* The keep_last subquery (lines 222-235): max(DagRun.execution_date) over
\* the dag_run table, filtered and grouped as asked.  The result is a set of
\* values plus a flag telling whether it holds a NULL (max over no rows
\* without GROUP BY is a single NULL).
Subquery(dag_run, keep_last_filters, keep_last_group_by) ==
  LET base == IF keep_last_filters
                THEN {r \in dag_run : ~r.external_trigger}
                ELSE dag_run
  IN IF keep_last_group_by
       THEN [vals |-> {Max({r.date : r \in {q \in base : q.dag_id = g}}) :
                          g \in {r.dag_id : r \in base}},
             null |-> FALSE]
       ELSE IF base = {}
         THEN [vals |-> {}, null |-> TRUE]
         ELSE [vals |-> {Max({r.date : r \in base})}, null |-> FALSE]

\* SQL's  x NOT IN (subquery): unknown, hence no match, when the subquery
\* holds a NULL and x is not among its values.
NotIn(x, sub) == x \notin sub.vals /\ ~sub.null

\* build_query comparing with < where the code has <=.
build_query_strict(table, dag_run, max_date, keep_last, keep_last_filters, keep_last_group_by) ==
  IF ~keep_last
    THEN {r \in table : r.date < max_date}
    ELSE LET subquery == Subquery(dag_run, keep_last_filters,
                                  keep_last_group_by)
         IN {r \in table : NotIn(r.date, subquery) /\ r.date < max_date}

\* build_query (lines 203-242): the rows of table that the query selects.
\* dag_run is the content of the dag_run table, which the keep_last
\* subquery reads whatever airflow_db_model is.
build_query(table, dag_run, max_date, keep_last, keep_last_filters, keep_last_group_by) ==
  IF ~keep_last
    THEN {r \in table : r.date <= max_date}
    ELSE LET subquery == Subquery(dag_run, keep_last_filters,
                                  keep_last_group_by)
         IN {r \in table : NotIn(r.date, subquery) /\ r.date <= max_date}

\* query.filter(airflow_db_model.dag_id == dag) (line 332): `== None`
\* compiles to IS NULL, `== 'x'` never matches a NULL dag_id.
FilterDag(rows, dag) == {r \in rows : r.dag_id = dag}

\* ---------------------------------------------------- print_configuration
\* Stands for plugins/constants/variables.py, whose value is not in src/.
DEFAULT_MAX_DB_ENTRY_AGE_IN_DAYS == 2

\* dag_run.conf is a set of <<key, value>> pairs; None and {} are both {}.
\* dict.get(key, None) as a set: {} is None.
Get(conf, key) == {p[2] : p \in {q \in conf : q[1] = key}}

\* The fallback taken only below 0, so that a request of 0 days stands.
max_db_entry_age_in_days_zero(conf) ==
  LET requested == IF conf # {} THEN Get(conf, "maxDBEntryAgeInDays") ELSE {}
  IN IF requested = {} \/ (\A v \in requested : v < 0)
       THEN DEFAULT_MAX_DB_ENTRY_AGE_IN_DAYS
       ELSE CHOOSE v \in requested : TRUE

\* Lines 169-181: the number of days the run uses.
max_db_entry_age_in_days(conf) ==
  LET requested == IF conf # {} THEN Get(conf, "maxDBEntryAgeInDays") ELSE {}
  IN IF requested = {} \/ (\A v \in requested : v < 1)
       THEN DEFAULT_MAX_DB_ENTRY_AGE_IN_DAYS
       ELSE CHOOSE v \in requested : TRUE

\* datetime.isoformat() (line 192): the timestamp written out in decimal.
RECURSIVE isoformat(_)
isoformat(t) == IF t < 10 THEN <<t>> ELSE Append(isoformat(t \div 10), t % 10)

\* dateutil.parser.parse (line 276): the timestamp read back.
RECURSIVE parse(_)
parse(s) ==
  IF Len(s) = 0 THEN 0
  ELSE 10 * parse(SubSeq(s, 1, Len(s) - 1)) + s[Len(s)]

\* ------------------------------------------------------------------ state
VARIABLES
  objects,        \* the models left in DATABASE_OBJECTS (others commented out)
  tables,         \* committed rows of each model's table
  present,        \* whether the model's table exists in the metadata database
  enable_delete,  \* ENABLE_DELETE
  dag_run_conf,   \* dag_run.conf of the run
  clock,          \* now(): it has moved on whenever a task starts
  now_reads,      \* how many times the run has read now()
  xcom,           \* XCom max_date pushed by print_configuration
  task,           \* state of each task instance of the run
  tries,          \* attempts each task instance has started
  session,        \* settings.Session() of each cleanup task
  max_date,       \* cleanup_function's local max_date
  list_dags,      \* cleanup_function's partitions still to process
  enumerated,     \* list_dags as built by the latest attempt
  handled,        \* partitions the latest attempt has committed
  log,            \* models whose "not present ... Skipping" error is logged
  tables0,        \* the tables as they were when the run was triggered
  printed,        \* the "Configurations:" print_configuration logged
  q_args,         \* arguments of a direct build_query call
  q_rows          \* <<rows>> once that call has returned its rows

vars == <<objects, tables, present, enable_delete, dag_run_conf, clock,
          now_reads, xcom, task, tries, session, max_date, list_dags,
          enumerated, handled, log, tables0, printed, q_args, q_rows>>

confVars == <<objects, present, enable_delete, dag_run_conf, tables0>>
queryVars == <<q_args, q_rows>>
printVars == <<now_reads, xcom, printed>>

\* default_args["retries"] (line 149)
retries == 1

TaskIds == Models \cup {"print_configuration", "analyze_query"}

\* Subsets of S with at most n elements.
UpTo(S, n) == {T : T \in {U \in SUBSET S : Cardinality(U) <= n}}

\* Every order in which the database may return the set S.
Orders(S) ==
  {f \in [1..Cardinality(S) -> S] :
     \A i, j \in 1..Cardinality(S) : i # j => f[i] # f[j]}

RequestedValues == {-5, 0, 1, 3}
Confs ==
  {{}, {<<"other", 1>>}} \cup
  {{<<"maxDBEntryAgeInDays", v>>} : v \in RequestedValues}

NoArgs ==
  [airflow_db_model |-> "DagRun", table |-> {}, dag_run |-> {},
   max_date |-> 0, keep_last |-> FALSE, keep_last_filters |-> FALSE,
   keep_last_group_by |-> FALSE]

\* The models whose clean-up is modelled: one of each shape in
\* DATABASE_OBJECTS (plain, keep_last, do_not_delete_by_dag_id).
Shapes == {"BaseJob", "DagRun", "ImportError"}

\* The contents a table may have when the run is triggered: when one
\* category is cleaned alone, and when the DAG has two cleanup tasks.
BaseJobContents == UpTo(RowsOf("BaseJob"), MaxRows)
DagRunContents == UpTo(RowsOf("DagRun"), MaxRows)
ImportErrorContents == UpTo(RowsOf("ImportError"), MaxRows)
BaseJobDagContents == UpTo(RowsOf("BaseJob"), DagMaxRows)
DagRunDagContents == UpTo(RowsOf("DagRun"), DagMaxRows)
ImportErrorDagContents == UpTo(RowsOf("ImportError"), DagMaxRows)

\* The state of a freshly triggered run over the models objs, whose
\* tables hold one of the given contents, or nothing when they are missing.
Triggered(objs, BaseJobs, DagRuns, ImportErrors, confs) ==
  /\ objects = objs
  /\ \E miss \in SUBSET objs : present = [m \in Models |-> m \notin miss]
  /\ LET rows(m, contents) ==
           IF m \in objs /\ present[m] THEN contents ELSE {{}}
     IN \E a \in rows("BaseJob", BaseJobs), b \in rows("DagRun", DagRuns),
           c \in rows("ImportError", ImportErrors) :
          tables = [m \in Models |->
                      IF m = "BaseJob" THEN a
                      ELSE IF m = "DagRun" THEN b
                      ELSE IF m = "ImportError" THEN c
                      ELSE {}]
  /\ enable_delete \in BOOLEAN
  /\ dag_run_conf \in confs
  /\ clock = StartClock
  /\ now_reads = 0
  /\ xcom = <<>>
  /\ task = [t \in TaskIds |-> "none"]
  /\ tries = [t \in TaskIds |-> 0]
  /\ session = [m \in Models |-> "none"]
  /\ max_date = [m \in Models |-> 0]
  /\ list_dags = [m \in Models |-> <<>>]
  /\ enumerated = [m \in Models |-> <<>>]
  /\ handled = [m \in Models |-> 0]
  /\ log = {}
  /\ tables0 = tables
  /\ printed = {}
  /\ q_args = NoArgs
  /\ q_rows = <<>>

\* A run of a DAG with two cleanup tasks, one that deletes by dag_id and
\* ImportError's, with or without a requested age.
Init ==
  \E a \in Shapes \ {"ImportError"} :
    Triggered({a, "ImportError"}, BaseJobDagContents, DagRunDagContents,
              ImportErrorDagContents,
              {{}, {<<"maxDBEntryAgeInDays", 1>>}})

\* A run of a DAG with a single cleanup task, under any dag_run.conf.
CleanupInit ==
  \E c \in Shapes :
    Triggered({c}, BaseJobContents, DagRunContents, ImportErrorContents,
              Confs)

\* ---------------------------------------------------------------- actions
\* print_configuration_function (lines 165-192).
print_configuration_function ==
  /\ task["print_configuration"] = "none"
  /\ LET days == max_db_entry_age_in_days(dag_run_conf)
         now == clock
     IN /\ printed' = {[now |-> now, max_db_entry_age_in_days |-> days,
                        max_date |-> now - days]}
        /\ xcom' = isoformat(now - days)
  /\ now_reads' = now_reads + 1
  /\ task' = [task EXCEPT !["print_configuration"] = "success"]
  /\ tries' = [tries EXCEPT !["print_configuration"] = 1]
  /\ clock' = clock + 1
  /\ UNCHANGED <<confVars, tables, session, max_date, list_dags,
                 enumerated, handled, log, queryVars>>

\* A cleanup task instance may start: its upstream succeeded (line 378) and
\* it has not run, or it failed and has a retry left (line 149).
Runnable(c) ==
  /\ c \in objects
  /\ task["print_configuration"] = "success"
  /\ task[c] \in {"none", "up_for_retry"}

\* max_date worked out again by the cleanup task instead of pulled.
RecomputedMaxDate == clock - max_db_entry_age_in_days(dag_run_conf)

\* xcom_pull and parse (lines 271-276).
PulledMaxDate == parse(xcom)

\* The state of a task instance whose attempt raised: tries'[c] attempts
\* have started, and retries of them may be followed by another.
AfterFailure(c) == IF tries'[c] <= retries THEN "up_for_retry" ELSE "failed"

\* The rows one query of cleanup_function selects in model c's table.
Query(c, md) ==
  build_query(tables[c], tables["DagRun"], md,
              DATABASE_OBJECTS[c].keep_last,
              DATABASE_OBJECTS[c].keep_last_filters,
              DATABASE_OBJECTS[c].keep_last_group_by)

\* A delete that is never committed: session.close() rolls it back.
DeleteUncommitted(table, rows) == table

\* A delete that does not look at ENABLE_DELETE.
DeleteAlways(table, rows) == table \ rows

\* query.delete followed by session.commit (lines 313-316, 335-338).
Delete(table, rows) == IF enable_delete THEN table \ rows ELSE table

\* Lines 318-321: [str(list(dag)[0]) for dag in dags] + [None], the
\* distinct dag_ids in an order of the database's choosing.
ListDags(table) ==
  {[i \in 1..Len(o) |-> Str(o[i])] \o <<NULL>> :
     o \in Orders({r.dag_id : r \in table})}

\* ProgrammingError left uncaught: the attempt fails like any other.
SkippedUncaught(c) ==
  /\ session' = [session EXCEPT ![c] = "closed"]
  /\ task' = [task EXCEPT ![c] =
                IF tries'[c] <= retries THEN "up_for_retry" ELSE "failed"]
  /\ list_dags' = [list_dags EXCEPT ![c] = <<>>]
  /\ log' = log

\* The exception caught inside the loop, which goes on with the next dag.
RaisedInsideLoop(c) ==
  IF list_dags[c] = <<>> \/ Tail(list_dags[c]) = <<>>
    THEN /\ session' = [session EXCEPT ![c] = "closed"]
         /\ task' = [task EXCEPT ![c] = "failed"]
         /\ list_dags' = [list_dags EXCEPT ![c] = <<>>]
         /\ log' = log
    ELSE /\ list_dags' = [list_dags EXCEPT ![c] = Tail(@)]
         /\ UNCHANGED <<session, task, log>>

\* An attempt that ends in the except ProgrammingError clause (348-356).
Skipped(c) ==
  /\ log' = log \cup {c}
  /\ session' = [session EXCEPT ![c] = "closed"]
  /\ task' = [task EXCEPT ![c] = "success"]
  /\ list_dags' = [list_dags EXCEPT ![c] = <<>>]

\* An attempt that another exception ends: finally closes the session.
Raised(c) ==
  /\ session' = [session EXCEPT ![c] = "closed"]
  /\ task' = [task EXCEPT ![c] = AfterFailure(c)]
  /\ list_dags' = [list_dags EXCEPT ![c] = <<>>]
  /\ log' = log

\* cleanup_function on a do_not_delete_by_dag_id model (lines 267-316,
\* 340-356): one query over the whole table.
CleanupGlobal(c) ==
  /\ Runnable(c)
  /\ DATABASE_OBJECTS[c].do_not_delete_by_dag_id
  /\ enable_delete => present[c]
  /\ tries' = [tries EXCEPT ![c] = @ + 1]
  /\ max_date' = [max_date EXCEPT ![c] = PulledMaxDate]
  /\ tables' = [tables EXCEPT ![c] = Delete(@, Query(c, PulledMaxDate))]
  /\ session' = [session EXCEPT ![c] = "closed"]
  /\ task' = [task EXCEPT ![c] = "success"]
  /\ enumerated' = [enumerated EXCEPT ![c] = <<>>]
  /\ handled' = [handled EXCEPT ![c] = 1]
  /\ clock' = clock + 1
  /\ UNCHANGED <<confVars, printVars, list_dags, log,
                 queryVars>>

\* cleanup_function up to the first partition (lines 267-321) on a model
\* deleted by dag_id.
CleanupEnumerate(c) ==
  /\ Runnable(c)
  /\ ~DATABASE_OBJECTS[c].do_not_delete_by_dag_id
  /\ present[c]
  /\ tries' = [tries EXCEPT ![c] = @ + 1]
  /\ max_date' = [max_date EXCEPT ![c] = PulledMaxDate]
  /\ \E l \in ListDags(tables[c]) :
       /\ list_dags' = [list_dags EXCEPT ![c] = l]
       /\ enumerated' = [enumerated EXCEPT ![c] = l]
  /\ handled' = [handled EXCEPT ![c] = 0]
  /\ session' = [session EXCEPT ![c] = "open"]
  /\ task' = [task EXCEPT ![c] = "running"]
  /\ clock' = clock + 1
  /\ UNCHANGED <<confVars, tables, printVars, log,
                 queryVars>>

\* The first statement sent to a table that does not exist raises
\* ProgrammingError: the distinct query (line 321), or the delete of a
\* do_not_delete_by_dag_id model (line 315).
CleanupMissing(c) ==
  /\ Runnable(c)
  /\ ~present[c]
  /\ DATABASE_OBJECTS[c].do_not_delete_by_dag_id => enable_delete
  /\ tries' = [tries EXCEPT ![c] = @ + 1]
  /\ max_date' = [max_date EXCEPT ![c] = PulledMaxDate]
  /\ enumerated' = [enumerated EXCEPT ![c] = <<>>]
  /\ handled' = [handled EXCEPT ![c] = 0]
  /\ Skipped(c)
  /\ clock' = clock + 1
  /\ UNCHANGED <<confVars, tables, printVars, queryVars>>

\* The first statement of an attempt fails in the database.
CleanupStartFault(c, kind) ==
  /\ Runnable(c)
  /\ present[c]
  /\ DATABASE_OBJECTS[c].do_not_delete_by_dag_id => enable_delete
  /\ tries' = [tries EXCEPT ![c] = @ + 1]
  /\ max_date' = [max_date EXCEPT ![c] = PulledMaxDate]
  /\ enumerated' = [enumerated EXCEPT ![c] = <<>>]
  /\ handled' = [handled EXCEPT ![c] = 0]
  /\ IF kind = "ProgrammingError" THEN Skipped(c) ELSE Raised(c)
  /\ clock' = clock + 1
  /\ UNCHANGED <<confVars, tables, printVars, queryVars>>

\* One iteration of the loop over list_dags (lines 322-338); after the
\* last one the function ends (lines 340-356).
CleanupPartition(c) ==
  /\ task[c] = "running"
  /\ list_dags[c] # <<>>
  /\ LET dag == Head(list_dags[c])
         query == FilterDag(Query(c, max_date[c]), dag)
     IN tables' = [tables EXCEPT ![c] = Delete(@, query)]
  /\ list_dags' = [list_dags EXCEPT ![c] = Tail(@)]
  /\ handled' = [handled EXCEPT ![c] = @ + 1]
  /\ IF Tail(list_dags[c]) = <<>>
       THEN /\ session' = [session EXCEPT ![c] = "closed"]
            /\ task' = [task EXCEPT ![c] = "success"]
       ELSE UNCHANGED <<session, task>>
  /\ UNCHANGED <<confVars, clock, printVars, tries, max_date,
                 enumerated, log, queryVars>>

\* The delete or the commit of one iteration fails: the uncommitted delete
\* is rolled back by session.close() and the loop is left.
CleanupPartitionFault(c, kind) ==
  /\ task[c] = "running"
  /\ list_dags[c] # <<>>
  /\ kind = "ProgrammingError" => enable_delete
  /\ tries' = tries
  /\ IF kind = "ProgrammingError" THEN Skipped(c) ELSE Raised(c)
  /\ UNCHANGED <<confVars, tables, clock, printVars, max_date,
                 enumerated, handled, queryVars>>

\* analyze_db (lines 359-367), once every cleanup task succeeded (379).
analyze_db ==
  /\ task["analyze_query"] = "none"
  /\ \A c \in objects : task[c] = "success"
  /\ task' = [task EXCEPT !["analyze_query"] = "success"]
  /\ tries' = [tries EXCEPT !["analyze_query"] = 1]
  /\ UNCHANGED <<confVars, tables, clock, printVars, session, max_date,
                 list_dags, enumerated, handled, log, queryVars>>

\* The scheduler does not run analyze_query after a failed cleanup task.
AnalyzeUpstreamFailed ==
  /\ task["analyze_query"] = "none"
  /\ \E c \in objects : task[c] = "failed"
  /\ task' = [task EXCEPT !["analyze_query"] = "upstream_failed"]
  /\ UNCHANGED <<confVars, tables, clock, printVars, tries, session,
                 max_date, list_dags, enumerated, handled, log,
                 queryVars>>

Next ==
  \/ print_configuration_function
  \/ \E c \in Models : CleanupGlobal(c)
  \/ \E c \in Models : CleanupEnumerate(c)
  \/ \E c \in Models : CleanupMissing(c)
  \/ \E c \in Models, kind \in FaultKinds : CleanupStartFault(c, kind)
  \/ \E c \in Models : CleanupPartition(c)
  \/ \E c \in Models, kind \in FaultKinds : CleanupPartitionFault(c, kind)
  \/ analyze_db
  \/ AnalyzeUpstreamFailed

Spec == Init /\ [][Next]_vars

CleanupSpec == CleanupInit /\ [][Next]_vars

\* ------------------------------------------------- build_query on its own
\* The arguments of one build_query call.  airflow_db_model is DagRun, whose
\* table is the one the subquery reads, or another model with its own
\* table; keep_last_filters and keep_last_group_by are DagRun columns.
QueryTables == UpTo(RowsOf("DagRun"), MaxRows)
QueryOtherTables == UpTo(RowsOf("BaseJob"), MaxRows - 1)
QueryDagRuns == UpTo(RowsOf("DagRun"), MaxRows - 2)
QueryInit ==
  /\ \/ \E t \in QueryTables, d \in (OldestDate - 1)..(OldestDate + MaxDate), k, f, g \in BOOLEAN :
          /\ ~k => ~f /\ ~g
          /\ q_args =
               [airflow_db_model |-> "DagRun", table |-> t, dag_run |-> t,
                max_date |-> d, keep_last |-> k, keep_last_filters |-> f,
                keep_last_group_by |-> g]
     \/ \E t \in QueryOtherTables, r \in QueryDagRuns, d \in (OldestDate - 1)..(OldestDate + MaxDate),
           k \in BOOLEAN :
          q_args =
            [airflow_db_model |-> "BaseJob", table |-> t, dag_run |-> r,
             max_date |-> d, keep_last |-> k, keep_last_filters |-> FALSE,
             keep_last_group_by |-> FALSE]
  /\ q_rows = <<>>
  /\ objects = {}
  /\ present = [m \in Models |-> TRUE]
  /\ tables = [m \in Models |-> {}]
  /\ tables0 = tables
  /\ enable_delete = TRUE
  /\ dag_run_conf = {}
  /\ clock = StartClock
  /\ now_reads = 0
  /\ xcom = <<>>
  /\ printed = {}
  /\ task = [t \in TaskIds |-> "none"]
  /\ tries = [t \in TaskIds |-> 0]
  /\ session = [m \in Models |-> "none"]
  /\ max_date = [m \in Models |-> 0]
  /\ list_dags = [m \in Models |-> <<>>]
  /\ enumerated = [m \in Models |-> <<>>]
  /\ handled = [m \in Models |-> 0]
  /\ log = {}

\* One call of build_query and the evaluation of the query it returns.
CallBuildQuery ==
  /\ q_rows = <<>>
  /\ q_rows' = <<build_query(q_args.table, q_args.dag_run, q_args.max_date,
                             q_args.keep_last, q_args.keep_last_filters,
                             q_args.keep_last_group_by)>>
  /\ UNCHANGED <<confVars, tables, clock, printVars, task, tries, session,
                 max_date, list_dags, enumerated, handled, log,
                 q_args>>

QueryNext == CallBuildQuery

QuerySpec == QueryInit /\ [][QueryNext]_vars

\* ----------------------------------------------------------------- claims
\* The max_date print_configuration computed and logged.
Cutoff == (CHOOSE p \in printed : TRUE).max_date

\* The newest date among the rows of group g.
GroupMax(table, g) == Max({r.date : r \in {q \in table : q.dag_id = g}})

\* C1: with keep_last and a group-by, protection is per group: build_query
\* selects every row at or older than the cutoff whose date is not the
\* maximum of its own group, even when that date is another group's maximum.
C1_ProtectionIsPerGroup ==
  ( /\ q_rows # <<>>
    /\ q_args.airflow_db_model = "DagRun"
    /\ q_args.keep_last /\ q_args.keep_last_group_by
    /\ ~q_args.keep_last_filters )
  => q_rows[1] = {r \in q_args.table :
                    /\ r.date <= q_args.max_date
                    /\ r.date # GroupMax(q_args.table, r.dag_id)}

\* C5: with keep_last and no group-by, the protected value is the maximum
\* of the model's own age_check_column: build_query selects exactly the
\* rows at or older than the cutoff that do not hold that maximum.
C5_ProtectsOwnMaximum ==
  ( /\ q_rows # <<>>
    /\ q_args.keep_last /\ ~q_args.keep_last_group_by
    /\ ~q_args.keep_last_filters
    /\ q_args.table # {} )
  => q_rows[1] = {r \in q_args.table :
                    /\ r.date <= q_args.max_date
                    /\ r.date # Max({q.date : q \in q_args.table})}

\* C2 as claimed: once a cleanup task has ended, every partition it
\* enumerated has been processed, but for at most the one that failed
\* (stated for tables without unowned rows and for failures other than
\* ProgrammingError).
C2_LaterPartitionsStillProcessed ==
  \A c \in objects :
    ( /\ task[c] \in {"success", "failed"} /\ enumerated[c] # <<>>
      /\ c \notin log
      /\ \A r \in tables0[c] : r.dag_id # NULL )
    => handled[c] >= Len(enumerated[c]) - 1

\* C2 amended: a failing delete or commit ends the attempt.  The step that
\* leaves an iteration without committing it changes no table, empties
\* list_dags, closes the session and leaves the task succeeded (a
\* ProgrammingError, logged as a skip), up for retry or failed.
C2_FailureEndsAttempt ==
  [][\A c \in objects :
       (task[c] = "running" /\ list_dags'[c] # list_dags[c]
          /\ handled'[c] = handled[c])
       => /\ tables' = tables
          /\ list_dags'[c] = <<>>
          /\ session'[c] = "closed"
          /\ task'[c] \in {"success", "up_for_retry", "failed"}
          /\ task'[c] = "success" <=> c \in log']_vars

\* A failure after the first partition was committed, with at least one
\* more partition after the failing one and eligible rows left behind.
C2_Witness ==
  \E c \in objects :
    /\ task[c] \in {"success", "up_for_retry", "failed"}
    /\ enable_delete
    /\ handled[c] >= 1
    /\ Len(enumerated[c]) > handled[c] + 1
    /\ tables[c] # tables0[c]
    /\ Query(c, Cutoff) # {}

\* C3: the enumeration holds each owner present in the table once, then one
\* unowned partition, and nothing else; no row belongs to two partitions.
C3_OnePartitionPerOwner ==
  \A c \in objects :
    (task[c] = "running" /\ handled[c] = 0)
    => LET owners == {r.dag_id : r \in tables[c]} \ {NULL}
           l == enumerated[c]
       IN /\ Len(l) = Cardinality(owners) + 1
          /\ l[Len(l)] = NULL
          /\ {l[i] : i \in 1..(Len(l) - 1)} = owners
          /\ \A r \in tables[c] :
               Cardinality({i \in 1..Len(l) : r.dag_id = l[i]}) <= 1

\* C4: without keep_last a row is selected exactly when its date is at or
\* before the cutoff, and a cleanup that deleted and ended without error
\* leaves exactly the rows newer than the cutoff.
C4_ExactlyNewerRowsRemain ==
  \A c \in objects :
    ~DATABASE_OBJECTS[c].keep_last =>
      /\ tries[c] > 0 =>
           Query(c, max_date[c]) = {r \in tables[c] : r.date <= Cutoff}
      /\ (enable_delete /\ task[c] = "success" /\ c \notin log)
           => tables[c] = {r \in tables0[c] : r.date > Cutoff}

\* A finished cleanup by dag_id that deleted an unowned row dated exactly
\* at the cutoff and kept a newer one.
C4_Witness ==
  \E c \in objects :
    /\ ~DATABASE_OBJECTS[c].keep_last
    /\ ~DATABASE_OBJECTS[c].do_not_delete_by_dag_id
    /\ enable_delete /\ task[c] = "success" /\ c \notin log
    /\ \E r \in tables0[c] \ tables[c] : r.date = Cutoff /\ r.dag_id = NULL
    /\ tables[c] # {}

\* C8: after a cleanup that deleted and ended without error, a second
\* cleanup with the same cutoff selects nothing in any partition, and the
\* dates keep_last protects are those it protected at the start.
C8_SecondCleanupMatchesNothing ==
  \A c \in objects :
    /\ Subquery(tables["DagRun"], DATABASE_OBJECTS[c].keep_last_filters,
                DATABASE_OBJECTS[c].keep_last_group_by)
         = Subquery(tables0["DagRun"], DATABASE_OBJECTS[c].keep_last_filters,
                    DATABASE_OBJECTS[c].keep_last_group_by)
    /\ (enable_delete /\ task[c] = "success" /\ c \notin log)
         => IF DATABASE_OBJECTS[c].do_not_delete_by_dag_id
              THEN Query(c, Cutoff) = {}
              ELSE \A l \in ListDags(tables[c]) : \A i \in 1..Len(l) :
                     FilterDag(Query(c, Cutoff), l[i]) = {}

\* A finished keep_last cleanup that deleted rows and left a protected row
\* at or older than the cutoff.
C8_Witness ==
  \E c \in objects :
    /\ DATABASE_OBJECTS[c].keep_last
    /\ enable_delete /\ task[c] = "success" /\ c \notin log
    /\ tables[c] # tables0[c]
    /\ \E r \in tables[c] : r.date <= Cutoff

\* C10: with ENABLE_DELETE off no step changes a table; a step that
\* changes one is the delete and commit of one query: it removes exactly
\* the rows that query selects, from one table, and counts one commit.
C10_DryRunFrame ==
  [][/\ ~enable_delete => tables' = tables
     /\ tables' # tables =>
          \E c \in objects :
            /\ enable_delete
            /\ \A m \in Models \ {c} : tables'[m] = tables[m]
            /\ handled'[c] = handled[c] + 1
            /\ tables'[c] = tables[c] \
                 (IF DATABASE_OBJECTS[c].do_not_delete_by_dag_id
                    THEN Query(c, Cutoff)
                    ELSE FilterDag(Query(c, Cutoff), Head(list_dags[c])))]_vars

\* A dry run that went through several partitions, selected rows and left
\* them in place.
C10_Witness ==
  \E c \in objects :
    /\ ~enable_delete /\ task[c] = "success"
    /\ handled[c] >= 2
    /\ Query(c, Cutoff) # {}
    /\ tables = tables0

\* C6: now() is read once, before any cleanup attempt starts, and every
\* attempt of every cleanup task, retries included, works with the max_date
\* print_configuration computed.
C6_OneCutoffPerRun ==
  /\ now_reads <= 1
  /\ \A c \in objects :
       tries[c] > 0 => now_reads = 1 /\ printed # {} /\ max_date[c] = Cutoff

\* Two cleanup tasks have started, one of them for the second time, after
\* the clock moved on from the time print_configuration read.
C6_Witness ==
  /\ printed # {}
  /\ \E p \in printed : clock > p.now
  /\ \E c, d \in objects :
       c # d /\ tries[c] = 2 /\ handled[c] >= 1 /\ tries[d] >= 1

\* C7: the days used are the requested value when it is present and at
\* least 1 and the default otherwise, max_date is now() minus that many
\* days, and print_configuration does not fail.
C7_CutoffResolution ==
  /\ task["print_configuration"] \in {"none", "success"}
  /\ task["print_configuration"] = "success" =>
       \E p \in printed :
         LET req == {q[2] : q \in {x \in dag_run_conf :
                                     x[1] = "maxDBEntryAgeInDays"}}
             days == IF \E v \in req : v >= 1
                       THEN CHOOSE v \in req : v >= 1
                       ELSE DEFAULT_MAX_DB_ENTRY_AGE_IN_DAYS
         IN /\ p.max_db_entry_age_in_days = days
            /\ p.max_date = p.now - days
            /\ parse(xcom) = p.now - days

\* A run that asked for 0 days and got the default.
C7_Witness ==
  /\ dag_run_conf = {<<"maxDBEntryAgeInDays", 0>>}
  /\ task["print_configuration"] = "success"
  /\ \E p \in printed : p.max_date = p.now - DEFAULT_MAX_DB_ENTRY_AGE_IN_DAYS

MissingTableSkipped(c) ==
  /\ task[c] \in {"none", "success"}
  /\ tables[c] = {}
  /\ tries[c] > 0 =>
       /\ task[c] = "success" /\ session[c] = "closed" /\ tries[c] = 1
       /\ (DATABASE_OBJECTS[c].do_not_delete_by_dag_id => enable_delete)
            => c \in log
  /\ task["analyze_query"] = "upstream_failed" =>
       \E d \in objects : present[d] /\ task[d] = "failed"
  /\ ~ENABLED Next =>
       /\ task[c] = "success"
       /\ \A d \in objects : task[d] \in {"success", "failed"}
       /\ task["analyze_query"] = "success"
            <=> \A d \in objects : task[d] = "success"

====
